---- MODULE Spec2Model ----
(***************************************************************************)
(* A model of tracing-forest's tag module (tracing-forest/src/tag.rs):     *)
(* the Tag value, the type-state Builder that constructs it, the           *)
(* Level -> Tag conversion, the Display rendering, and the TagParser       *)
(* capability with its two built-in implementations.                       *)
(*                                                                         *)
(* Conventions.  A Rust `char` is written as a one-character TLA+ string   *)
(* ("a", "."), a non-ASCII char by its code point name ("U+1F6A8").  A     *)
(* `&'static str` is the sequence of its chars.  An `Option<T>` is a       *)
(* sequence of length at most one: None is << >>, Some(x) is << x >>.      *)
(***************************************************************************)
EXTENDS Naturals, Sequences, FiniteSets, TLC

VARIABLES
    slots,      \* the let-bindings made so far by a program that uses the builder
    moved,      \* moved[i]: binding i was moved out of and can no longer be used
    parser,     \* the TagParser the layer holds
    event,      \* the event the tracing facility has dispatched, as an Option
    pending,    \* TRUE while the dispatched event has not yet been parsed
    log,        \* what the layer received from parse, one entry per event
    pc,         \* pc[t]: where thread t is in its invocation of parse
    arg,        \* arg[t]: the event thread t invoked parse with, as an Option
    frame,      \* frame[f]: the local variables of the callable's invocation f
    done        \* done[t]: the events thread t had parsed and what parse returned

vars == <<slots, moved, parser, event, pending, log, pc, arg, frame, done>>

builderVars == <<slots, moved>>
parserVars == <<parser, event, pending, log>>
threadVars == <<pc, arg, frame, done>>

-----------------------------------------------------------------------------
(* Bounds of the model *)

MaxSlots == 4
MaxEvents == 2

-----------------------------------------------------------------------------
(* Strings and chars *)

Range(s) == {s[i] : i \in 1..Len(s)}

None == << >>
Some(x) == << x >>

admin == <<"a", "d", "m", "i", "n">>
request == <<"r", "e", "q", "u", "e", "s", "t">>
security == <<"s", "e", "c", "u", "r", "i", "t", "y">>
critical == <<"c", "r", "i", "t", "i", "c", "a", "l">>
app == <<"a", "p", "p">>
lockIcon == "U+1F510"

\* The values a program passes to the builder's steps.
PrefixArgs == {admin, security}
SuffixArgs == {<<"a">>, <<"b">>}
IconArgs == {"x"}

Level == {"TRACE", "DEBUG", "INFO", "WARN", "ERROR"}

-----------------------------------------------------------------------------
(* Builder<S, I>: the type parameters S and I are the tags of the suffix   *)
(* and icon fields                                                         *)

Empty == <<"Empty">>
Suffix(s) == <<"Suffix", s>>
Icon(c) == <<"Icon", c>>

\* A Builder that is not Copy.
BuilderNotCopy == FALSE

\* #[derive(Copy, Clone)] on Builder, Empty, Suffix and Icon: passing a
\* builder by value copies it and leaves the binding it came from usable.
BuilderIsCopy == TRUE

builder == [prefix |-> None, suffix |-> Empty, icon |-> Empty]

\* set_prefix that starts from a fresh builder and so loses suffix and icon.
set_prefix_FromFresh(self, prefix) ==
    [builder EXCEPT !.prefix = Some(prefix)]

\* set_prefix that keeps a prefix already set.
set_prefix_KeepFirst(self, prefix) ==
    IF self.prefix # None THEN self ELSE [self EXCEPT !.prefix = Some(prefix)]

set_prefix(self, prefix) ==
    [self EXCEPT !.prefix = Some(prefix)]

\* set_suffix that leaves the icon unset.
set_suffix_ClearsIcon(self, suffix) ==
    [prefix |-> self.prefix, suffix |-> Suffix(suffix), icon |-> Empty]

\* set_suffix that keeps a suffix already set.
set_suffix_KeepFirst(self, suffix) ==
    [prefix |-> self.prefix,
     suffix |-> IF self.suffix = Empty THEN Suffix(suffix) ELSE self.suffix,
     icon |-> self.icon]

\* set_suffix that starts from a fresh builder and so loses the prefix.
set_suffix_DropsPrefix(self, suffix) ==
    [prefix |-> None, suffix |-> Suffix(suffix), icon |-> self.icon]

set_suffix(self, suffix) ==
    [prefix |-> self.prefix, suffix |-> Suffix(suffix), icon |-> self.icon]

\* set_icon that leaves the suffix unset.
set_icon_ClearsSuffix(self, icon) ==
    [prefix |-> self.prefix, suffix |-> Empty, icon |-> Icon(icon)]

\* set_icon that keeps an icon already set.
set_icon_KeepFirst(self, icon) ==
    [prefix |-> self.prefix,
     suffix |-> self.suffix,
     icon |-> IF self.icon = Empty THEN Icon(icon) ELSE self.icon]

set_icon(self, icon) ==
    [prefix |-> self.prefix, suffix |-> self.suffix, icon |-> Icon(icon)]

\* The WARN arm a copy of the ERROR arm.
LevelDefaults_WarnAsError(level) ==
    CASE level = "TRACE" -> <<<<"t", "r", "a", "c", "e">>, "U+1F4CD">>
      [] level = "DEBUG" -> <<<<"d", "e", "b", "u", "g">>, "U+1F41B">>
      [] level = "INFO"  -> <<<<"i", "n", "f", "o">>, "U+FF49">>
      [] level = "WARN"  -> <<<<"e", "r", "r", "o", "r">>, "U+1F6A8">>
      [] level = "ERROR" -> <<<<"e", "r", "r", "o", "r">>, "U+1F6A8">>

LevelDefaults(level) ==
    CASE level = "TRACE" -> <<<<"t", "r", "a", "c", "e">>, "U+1F4CD">>
      [] level = "DEBUG" -> <<<<"d", "e", "b", "u", "g">>, "U+1F41B">>
      [] level = "INFO"  -> <<<<"i", "n", "f", "o">>, "U+FF49">>
      [] level = "WARN"  -> <<<<"w", "a", "r", "n">>, "U+1F6A7">>
      [] level = "ERROR" -> <<<<"e", "r", "r", "o", "r">>, "U+1F6A8">>

\* set_level that keeps a suffix and an icon already set.
set_level_KeepsSet(self, level) ==
    LET d == LevelDefaults(level)
    IN  [prefix |-> self.prefix,
         suffix |-> IF self.suffix = Empty THEN Suffix(d[1]) ELSE self.suffix,
         icon |-> IF self.icon = Empty THEN Icon(d[2]) ELSE self.icon]

\* set_level that starts from a fresh builder and so loses the prefix.
set_level_DropsPrefix(self, level) ==
    LET d == LevelDefaults(level)
    IN  [prefix |-> None, suffix |-> Suffix(d[1]), icon |-> Icon(d[2])]

set_level(self, level) ==
    LET d == LevelDefaults(level)
    IN  [prefix |-> self.prefix, suffix |-> Suffix(d[1]), icon |-> Icon(d[2])]

\* finish offered as soon as the suffix is set.
FinishCallable_SuffixOnly(self) == self.suffix[1] = "Suffix"

\* finish is defined in `impl Builder<Suffix, Icon>` only.
FinishCallable(self) ==
    /\ self.suffix[1] = "Suffix"
    /\ self.icon[1] = "Icon"

finish(self) ==
    [prefix |-> self.prefix, suffix |-> self.suffix[2], icon |-> self.icon[2]]

\* A conversion that ignores its level.
from_AlwaysInfo(level) == finish(set_level(builder, "INFO"))

\* impl From<Level> for Tag
from(level) == finish(set_level(builder, level))

\* A Display that leaves out the separator.
fmt_NoDot(self) ==
    IF self.prefix # None
    THEN self.prefix[1] \o self.suffix
    ELSE self.suffix

\* impl fmt::Display for Tag
fmt(self) ==
    IF self.prefix # None
    THEN self.prefix[1] \o <<".">> \o self.suffix
    ELSE self.suffix

\* Tag's accessors: prefix(), suffix() and icon() take &self and return a
\* copy of the field.

\* A prefix() that reads the prefix of the builder most recently bound, as
\* if the Tag shared its fields with the builder.
Tag_prefix_Aliased(self) == slots[Len(slots)].val.prefix

Tag_prefix(self) == self.prefix

Tag_suffix(self) == self.suffix

Tag_icon(self) == self.icon

-----------------------------------------------------------------------------
(* A program using the builder: a sequence of let-bindings.  Binding 1 is  *)
(* `Tag::builder()`; every later binding is the result of a step or of     *)
(* finish invoked on an earlier binding that is still usable, or of        *)
(* `Tag::from(level)`.                                                     *)

Binding(kind, val, parent, op) ==
    [kind |-> kind, val |-> val, parent |-> parent, op |-> op]

IsBuilder(i) == i \in 1..Len(slots) /\ slots[i].kind = "Builder"
IsTag(i) == i \in 1..Len(slots) /\ slots[i].kind = "Tag"
Usable(i) == i \in 1..Len(slots) /\ ~moved[i]

\* Passing binding i by value (`self`) moves it unless its type is Copy.
Consume(i) ==
    moved' = Append(IF BuilderIsCopy THEN moved ELSE [moved EXCEPT ![i] = TRUE], FALSE)

Bind(kind, val, parent, op) ==
    /\ Len(slots) < MaxSlots
    /\ slots' = Append(slots, Binding(kind, val, parent, op))

SetPrefix(i, prefix) ==
    /\ IsBuilder(i) /\ Usable(i)
    /\ Bind("Builder", set_prefix(slots[i].val, prefix), i, <<"set_prefix", prefix>>)
    /\ Consume(i)
    /\ UNCHANGED <<parserVars, threadVars>>

SetSuffix(i, suffix) ==
    /\ IsBuilder(i) /\ Usable(i)
    /\ Bind("Builder", set_suffix(slots[i].val, suffix), i, <<"set_suffix", suffix>>)
    /\ Consume(i)
    /\ UNCHANGED <<parserVars, threadVars>>

SetIcon(i, icon) ==
    /\ IsBuilder(i) /\ Usable(i)
    /\ Bind("Builder", set_icon(slots[i].val, icon), i, <<"set_icon", icon>>)
    /\ Consume(i)
    /\ UNCHANGED <<parserVars, threadVars>>

SetLevel(i, level) ==
    /\ IsBuilder(i) /\ Usable(i)
    /\ Bind("Builder", set_level(slots[i].val, level), i, <<"set_level", level>>)
    /\ Consume(i)
    /\ UNCHANGED <<parserVars, threadVars>>

Finish(i) ==
    /\ IsBuilder(i) /\ Usable(i)
    /\ FinishCallable(slots[i].val)
    /\ Bind("Tag", finish(slots[i].val), i, <<"finish">>)
    /\ Consume(i)
    /\ UNCHANGED <<parserVars, threadVars>>

From(level) ==
    /\ Bind("Tag", from(level), 0, <<"from", level>>)
    /\ moved' = Append(moved, FALSE)
    /\ UNCHANGED <<parserVars, threadVars>>

-----------------------------------------------------------------------------
(* Events and TagParsers.  An event is what the host tracing facility      *)
(* hands to the layer: of its metadata only target and level are read.     *)

Targets == {admin, request, security, app}

Event == [target : Targets, level : Level]

\* The example parser without the guard on the level.
simple_tag_NoGuard(ev) ==
    LET target == ev.target
        level == ev.level
    IN  IF target = security
        THEN Some(finish(set_icon(set_suffix(set_prefix(builder, target), critical), lockIcon)))
        ELSE IF target \in {admin, request}
        THEN Some(finish(set_level(set_prefix(builder, target), level)))
        ELSE None

\* The module documentation's example parser.
simple_tag(ev) ==
    LET target == ev.target
        level == ev.level
    IN  IF target = security /\ level = "ERROR"
        THEN Some(finish(set_icon(set_suffix(set_prefix(builder, target), critical), lockIcon)))
        ELSE IF target \in {admin, request}
        THEN Some(finish(set_level(set_prefix(builder, target), level)))
        ELSE None

\* Two more callables of type Fn(&Event) -> Option<Tag>: one that tags
\* nothing, and one that tags every event by its level, prefixed by the
\* target unless the target is the default one.
none_fn(ev) == None
level_fn(ev) ==
    IF ev.target = app
    THEN Some(from(ev.level))
    ELSE Some(finish(set_level(set_prefix(builder, ev.target), ev.level)))

\* A callable that labels every event "info", keeps the level's icon, and
\* prefixes the target unless it is the default one.
glyph_fn(ev) ==
    LET b == set_suffix(set_level(builder, ev.level), <<"i", "n", "f", "o">>)
    IN  IF ev.target = app
        THEN Some(finish(b))
        ELSE Some(finish(set_prefix(b, ev.target)))

Callables == {"simple_tag", "none_fn", "level_fn", "glyph_fn"}

Call(f, ev) ==
    CASE f = "simple_tag" -> simple_tag(ev)
      [] f = "none_fn"    -> none_fn(ev)
      [] f = "level_fn"   -> level_fn(ev)
      [] f = "glyph_fn"   -> glyph_fn(ev)

\* A parse returns its result and the invocations of the wrapped callable
\* it made, each recorded by the event it was invoked with.

\* A NoTag that falls back to the level's Tag.
NoTag_parse_LevelTag(ev) == [ret |-> Some(from(ev.level)), calls |-> << >>]

\* impl TagParser for NoTag
NoTag_parse(ev) == [ret |-> None, calls |-> << >>]

\* An adapter that invokes the callable and drops what it returns.
Fn_parse_Drop(self, ev) == [ret |-> None, calls |-> <<ev>>]

\* impl<F> TagParser for F
Fn_parse(self, ev) == [ret |-> Call(self, ev), calls |-> <<ev>>]

parse(self, ev) ==
    IF self = "NoTag" THEN NoTag_parse(ev) ELSE Fn_parse(self, ev)

\* Tag's to_string(), through Display.
to_string(tag) == fmt(tag)

\* A Serialize that writes the Tag's three fields.
serialize_Fields(self) == <<"struct", self.prefix, self.suffix, self.icon>>

\* impl Serialize for Tag (with the serde feature): the one call made on
\* the serializer, serialize_str, and the string it is given.
serialize(self) == <<"serialize_str", to_string(self)>>

\* The tracing facility dispatches an event to the layer.
Dispatch(ev) ==
    /\ ~pending
    /\ Len(log) < MaxEvents
    /\ event' = Some(ev)
    /\ pending' = TRUE
    /\ UNCHANGED <<parser, log>>
    /\ UNCHANGED <<builderVars, threadVars>>

\* The layer passes a shared reference to the event to its parser, keeps
\* the Option<Tag> it gets back, the text the tag displays as and what the
\* tag serializes as.
OnEvent ==
    /\ pending
    /\ LET r == parse(parser, event[1])
       IN  log' = Append(log, [parser |-> parser,
                               event  |-> event[1],
                               tag    |-> r.ret,
                               calls  |-> r.calls,
                               text   |-> IF r.ret = None THEN None
                                          ELSE Some(to_string(r.ret[1])),
                               ser    |-> IF r.ret = None THEN None
                                          ELSE Some(serialize(r.ret[1]))])
    /\ pending' = FALSE
    /\ UNCHANGED <<parser, event>>
    /\ UNCHANGED <<builderVars, threadVars>>

-----------------------------------------------------------------------------
(* Threads that invoke parse on the layer's TagParser at the same time,    *)
(* each on its own event.  A callable reads the event's target and level   *)
(* into local variables and computes its result from them.                 *)

Threads == {"t1", "t2"}

\* The events the module example emits.
ExampleEvents ==
    {[target |-> admin, level |-> "INFO"], [target |-> request, level |-> "ERROR"],
     [target |-> security, level |-> "ERROR"], [target |-> app, level |-> "INFO"]}

\* Local variables kept in one place for all invocations.
Frame_Shared(t) == "t1"

\* The local variables of thread t's invocation are its own.
Frame(t) == t

ThreadsIdle ==
    /\ pc = [t \in Threads |-> "idle"]
    /\ arg = [t \in Threads |-> None]
    /\ frame = [t \in Threads |-> [target |-> << >>, level |-> "unset"]]
    /\ done = [t \in Threads |-> << >>]

RECURSIVE SumOver(_, _)
SumOver(S, f) ==
    IF S = {} THEN 0
    ELSE LET x == CHOOSE y \in S : TRUE
         IN  f[x] + SumOver(S \ {x}, f)

\* The invocations of parse begun so far.
Begun ==
    SumOver(Threads, [t \in Threads |-> Len(done[t]) + IF pc[t] = "idle" THEN 0 ELSE 1])

\* Thread t invokes parse with a reference to the event ev.
Begin(t, ev) ==
    /\ pc[t] = "idle"
    /\ Begun < MaxEvents
    /\ arg' = [arg EXCEPT ![t] = Some(ev)]
    /\ pc' = [pc EXCEPT ![t] = IF parser = "NoTag" THEN "return" ELSE "target"]
    /\ UNCHANGED <<frame, done>>
    /\ UNCHANGED <<builderVars, parserVars>>

\* let target = event.metadata().target();
ReadTarget(t) ==
    /\ pc[t] = "target"
    /\ frame' = [frame EXCEPT ![Frame(t)].target = arg[t][1].target]
    /\ pc' = [pc EXCEPT ![t] = "level"]
    /\ UNCHANGED <<arg, done>>
    /\ UNCHANGED <<builderVars, parserVars>>

\* let level = *event.metadata().level();
ReadLevel(t) ==
    /\ pc[t] = "level"
    /\ frame' = [frame EXCEPT ![Frame(t)].level = arg[t][1].level]
    /\ pc' = [pc EXCEPT ![t] = "return"]
    /\ UNCHANGED <<arg, done>>
    /\ UNCHANGED <<builderVars, parserVars>>

\* parse returns: None from NoTag, and from a callable what it computes
\* from its local variables.
Return(t) ==
    /\ pc[t] = "return"
    /\ LET r == IF parser = "NoTag"
                THEN parse(parser, arg[t][1])
                ELSE parse(parser, [target |-> frame[Frame(t)].target,
                                    level |-> frame[Frame(t)].level])
       IN  done' = [done EXCEPT ![t] = Append(@, [event |-> arg[t][1], tag |-> r.ret])]
    /\ pc' = [pc EXCEPT ![t] = "idle"]
    /\ arg' = [arg EXCEPT ![t] = None]
    /\ UNCHANGED frame
    /\ UNCHANGED <<builderVars, parserVars>>

-----------------------------------------------------------------------------

Init ==
    /\ slots = <<Binding("Builder", builder, 0, <<"builder">>)>>
    /\ moved = <<FALSE>>
    /\ parser = "NoTag"
    /\ event = None
    /\ pending = FALSE
    /\ log = << >>
    /\ ThreadsIdle

Next ==
    \/ \E i \in 1..MaxSlots, p \in PrefixArgs : SetPrefix(i, p)
    \/ \E i \in 1..MaxSlots, s \in SuffixArgs : SetSuffix(i, s)
    \/ \E i \in 1..MaxSlots, c \in IconArgs : SetIcon(i, c)
    \/ \E i \in 1..MaxSlots, l \in Level : SetLevel(i, l)
    \/ \E i \in 1..MaxSlots : Finish(i)
    \/ \E l \in Level : From(l)

\* The builder protocol.
Spec == Init /\ [][Next]_vars

InitParse ==
    /\ slots = <<Binding("Builder", builder, 0, <<"builder">>)>>
    /\ moved = <<FALSE>>
    /\ parser \in {"NoTag"} \cup Callables
    /\ event = None
    /\ pending = FALSE
    /\ log = << >>
    /\ ThreadsIdle

NextParse ==
    \/ \E ev \in Event : Dispatch(ev)
    \/ OnEvent

\* A layer holding a TagParser, fed events.
SpecParse == InitParse /\ [][NextParse]_vars

NextThreads ==
    \/ \E t \in Threads, ev \in ExampleEvents : Begin(t, ev)
    \/ \E t \in Threads : ReadTarget(t)
    \/ \E t \in Threads : ReadLevel(t)
    \/ \E t \in Threads : Return(t)

\* Threads invoking parse on one TagParser, in any interleaving.
SpecThreads == InitParse /\ [][NextThreads]_vars

-----------------------------------------------------------------------------
(* Properties of the builder protocol *)

Slots == 1..Len(slots)

Unset(i) == slots[i].val.suffix = Empty \/ slots[i].val.icon = Empty

\* The steps that led from `Tag::builder()` to binding i, oldest first.
RECURSIVE Chain(_)
Chain(i) ==
    IF slots[i].parent = 0 THEN << >>
    ELSE Append(Chain(slots[i].parent), slots[i].op)

OnlyPrefixSteps(c) == \A k \in 1..Len(c) : c[k][1] = "set_prefix"

Chars == Range(admin) \cup Range(request) \cup Range(security) \cup Range(critical)
            \cup Range(app) \cup {"."}
            \cup UNION {Range(LevelDefaults(l)[1]) : l \in Level}
Glyphs == IconArgs \cup {LevelDefaults(l)[2] : l \in Level}

\* C1: finish is callable only in the shape (suffix set, icon set): on a
\* builder whose suffix or icon is unset, and so on every builder reached
\* from builder() by set_prefix calls only, finish is not enabled; every Tag
\* produced by finish comes from a builder with both set, and every Tag has
\* a string as its suffix and a char as its icon.
C1_FinishOnlyWhenBothSet ==
    /\ \A i \in Slots :
          IsBuilder(i) /\ Unset(i) => ~FinishCallable(slots[i].val) /\ ~ENABLED Finish(i)
    /\ \A i \in Slots :
          IsBuilder(i) /\ OnlyPrefixSteps(Chain(i)) => ~ENABLED Finish(i)
    /\ \A i \in Slots :
          IsTag(i) /\ slots[i].op = <<"finish">> => ~Unset(slots[i].parent)
    /\ \A i \in Slots :
          IsTag(i) => /\ Range(slots[i].val.suffix) \subseteq Chars
                      /\ slots[i].val.icon \in Glyphs

\* There is room for another binding, finish is enabled on some builder, and
\* a builder reached from builder() by set_prefix calls only is bound.
C1_Witness ==
    /\ Len(slots) < MaxSlots
    /\ \E i \in Slots : IsBuilder(i) /\ Len(Chain(i)) >= 1 /\ OnlyPrefixSteps(Chain(i))
    /\ \E j \in Slots : ENABLED Finish(j)

\* The last value a chain of steps wrote to each field, as an Option,
\* read off the steps themselves.
RECURSIVE LastPrefix(_)
LastPrefix(c) ==
    IF c = << >> THEN None
    ELSE LET op == c[Len(c)]
         IN  IF op[1] = "set_prefix" THEN Some(op[2])
             ELSE LastPrefix(SubSeq(c, 1, Len(c) - 1))

RECURSIVE LastSuffix(_)
LastSuffix(c) ==
    IF c = << >> THEN None
    ELSE LET op == c[Len(c)]
         IN  IF op[1] = "set_suffix" THEN Some(op[2])
             ELSE IF op[1] = "set_level" THEN Some(LevelDefaults(op[2])[1])
             ELSE LastSuffix(SubSeq(c, 1, Len(c) - 1))

RECURSIVE LastIcon(_)
LastIcon(c) ==
    IF c = << >> THEN None
    ELSE LET op == c[Len(c)]
         IN  IF op[1] = "set_icon" THEN Some(op[2])
             ELSE IF op[1] = "set_level" THEN Some(LevelDefaults(op[2])[2])
             ELSE LastIcon(SubSeq(c, 1, Len(c) - 1))

LastWritten(c) ==
    [prefix |-> LastPrefix(c), suffix |-> LastSuffix(c)[1], icon |-> LastIcon(c)[1]]

\* set_prefix*, then set_suffix and set_icon in either order, or set_level.
InPattern(c) ==
    \E k \in 0..Len(c) :
        /\ OnlyPrefixSteps(SubSeq(c, 1, k))
        /\ LET rest == SubSeq(c, k + 1, Len(c))
           IN  \/ Len(rest) = 1 /\ rest[1][1] = "set_level"
               \/ Len(rest) = 2 /\ rest[1][1] = "set_suffix" /\ rest[2][1] = "set_icon"
               \/ Len(rest) = 2 /\ rest[1][1] = "set_icon" /\ rest[2][1] = "set_suffix"

\* C2: on a builder reached from builder() by set_prefix*, then (set_suffix
\* and set_icon in either order | set_level), finish is callable, enabled
\* while the program has room, and yields a Tag whose prefix, suffix and icon
\* are the last values the chain wrote to them; every Tag a finish produced
\* holds the last values written by the chain it was finished from.
C2_FinishYieldsLastWritten ==
    /\ \A i \in Slots :
          IsBuilder(i) /\ InPattern(Chain(i)) =>
              /\ FinishCallable(slots[i].val)
              /\ Len(slots) < MaxSlots => ENABLED Finish(i)
              /\ finish(slots[i].val) = LastWritten(Chain(i))
    /\ \A i \in Slots :
          IsTag(i) /\ slots[i].op = <<"finish">> =>
              slots[i].val = LastWritten(Chain(slots[i].parent))

\* A Tag finished from a chain of the pattern that set a prefix.
C2_Witness ==
    \E i \in Slots :
        /\ IsTag(i) /\ slots[i].op = <<"finish">>
        /\ InPattern(Chain(slots[i].parent))
        /\ Len(Chain(slots[i].parent)) = 2
        /\ slots[i].val.prefix # None

\* Binding i was the receiver of a step or of finish.
Consumed(i) == \E j \in Slots : slots[j].parent = i

\* What the call recorded as op returns when invoked on the builder b.
Applied(op, b) ==
    CASE op[1] = "set_prefix" -> set_prefix(b, op[2])
      [] op[1] = "set_suffix" -> set_suffix(b, op[2])
      [] op[1] = "set_icon"   -> set_icon(b, op[2])
      [] op[1] = "set_level"  -> set_level(b, op[2])
      [] op[1] = "finish"     -> finish(b)

\* C3 as stated: the builder is single-use, so once a step or finish has
\* been invoked on a binding, nothing can be invoked on that binding again:
\* no binding is the receiver of two calls.
C3_SingleUse ==
    \A j, k \in Slots :
        j # k /\ slots[j].parent # 0 => slots[j].parent # slots[k].parent

\* C3 as amended: a step or finish takes the builder by value and returns a
\* new value; the binding it was invoked on is not invalidated (Builder is
\* Copy) and keeps its value, so further steps, and finish when suffix and
\* icon are set, can be invoked on it.
C3_StepsLeaveReceiverUsable ==
    /\ \A i \in Slots : Usable(i)
    /\ \A j \in Slots :
          slots[j].parent # 0 =>
              slots[j].val = Applied(slots[j].op, slots[slots[j].parent].val)
    /\ \A i \in Slots :
          IsBuilder(i) /\ Consumed(i) /\ Len(slots) < MaxSlots =>
              /\ \A p \in PrefixArgs : ENABLED SetPrefix(i, p)
              /\ \A x \in SuffixArgs : ENABLED SetSuffix(i, x)
              /\ \A c \in IconArgs : ENABLED SetIcon(i, c)
              /\ \A l \in Level : ENABLED SetLevel(i, l)
              /\ FinishCallable(slots[i].val) => ENABLED Finish(i)

\* One binding was the receiver of a step and then of finish.
C3_Witness ==
    \E i, j, k \in Slots :
        /\ j # k /\ slots[j].parent = i /\ slots[k].parent = i
        /\ IsBuilder(j) /\ IsTag(k) /\ j < k

\* The table of severity levels as the specification lists it.
TableEntry(level) ==
    CASE level = "TRACE" -> [label |-> <<"t", "r", "a", "c", "e">>, glyph |-> "U+1F4CD"]
      [] level = "DEBUG" -> [label |-> <<"d", "e", "b", "u", "g">>, glyph |-> "U+1F41B"]
      [] level = "INFO"  -> [label |-> <<"i", "n", "f", "o">>, glyph |-> "U+FF49"]
      [] level = "WARN"  -> [label |-> <<"w", "a", "r", "n">>, glyph |-> "U+1F6A7"]
      [] level = "ERROR" -> [label |-> <<"e", "r", "r", "o", "r">>, glyph |-> "U+1F6A8"]

TableTag(level) ==
    [prefix |-> None, suffix |-> TableEntry(level).label, icon |-> TableEntry(level).glyph]

\* Binding i is `Tag::from(level)`, for some level.
IsFrom(i) == IsTag(i) /\ slots[i].op[1] = "from"

\* Binding i is `builder().set_level(level).finish()`, for some level.
IsViaSetLevel(i) ==
    /\ IsTag(i) /\ slots[i].op = <<"finish">>
    /\ slots[slots[i].parent].parent = 1
    /\ slots[slots[i].parent].op[1] = "set_level"

LevelOf(i) == IF IsFrom(i) THEN slots[i].op[2] ELSE slots[slots[i].parent].op[2]

\* C4: for every level L, Tag::from(L) and builder().set_level(L).finish()
\* are the same Tag, with no prefix and the label and glyph the table
\* lists for L.
C4_FromEqualsSetLevel ==
    /\ \A i \in Slots :
          IsFrom(i) \/ IsViaSetLevel(i) => slots[i].val = TableTag(LevelOf(i))
    /\ \A i, j \in Slots :
          IsFrom(i) /\ IsViaSetLevel(j) /\ LevelOf(i) = LevelOf(j) =>
              slots[i].val = slots[j].val

\* Tag::from(L) and builder().set_level(L).finish() are both bound, for
\* the same L.
C4_Witness ==
    \E i, j \in Slots :
        /\ IsFrom(i) /\ IsViaSetLevel(j)
        /\ LevelOf(i) = LevelOf(j) /\ LevelOf(i) # "INFO"

\* Binding i is the result of a set_level.
IsSetLevel(i) == IsBuilder(i) /\ slots[i].op[1] = "set_level"

LabelAndGlyph(i) ==
    IF IsBuilder(i)
    THEN <<slots[i].val.suffix[2], slots[i].val.icon[2]>>
    ELSE <<slots[i].val.suffix, slots[i].val.icon>>

\* C5: set_level and Tag::from accept each of the five levels and give the
\* label and glyph the table lists for it ("trace", "debug", "info", "warn",
\* "error", each with its glyph); two different levels never give the same
\* (label, glyph) pair.
C5_LevelTableTotalAndDistinct ==
    /\ \A i \in Slots :
          IsSetLevel(i) \/ IsFrom(i) =>
              /\ slots[i].op[2] \in Level
              /\ LabelAndGlyph(i) = <<TableEntry(slots[i].op[2]).label,
                                      TableEntry(slots[i].op[2]).glyph>>
    /\ \A i \in Slots :
          IsSetLevel(i) => slots[i].val.suffix[1] = "Suffix" /\ slots[i].val.icon[1] = "Icon"
    /\ Len(slots) < MaxSlots =>
          \A l \in Level :
              /\ ENABLED From(l)
              /\ \A i \in Slots : IsBuilder(i) => ENABLED SetLevel(i, l)
    /\ \A i, j \in Slots :
          /\ IsSetLevel(i) \/ IsFrom(i)
          /\ IsSetLevel(j) \/ IsFrom(j)
          /\ slots[i].op[2] # slots[j].op[2]
          => LabelAndGlyph(i) # LabelAndGlyph(j)

\* set_level was invoked with WARN and with ERROR, and Tag::from with TRACE.
C5_Witness ==
    \E i, j, k \in Slots :
        /\ IsSetLevel(i) /\ slots[i].op[2] = "WARN"
        /\ IsSetLevel(j) /\ slots[j].op[2] = "ERROR"
        /\ IsFrom(k) /\ slots[k].op[2] = "TRACE"

-----------------------------------------------------------------------------
(* Properties of rendering and of the TagParsers *)

Entries == 1..Len(log)

Dot == "."
info == <<"i", "n", "f", "o">>

\* C6: a Tag with a prefix displays as the prefix, one '.', and the suffix;
\* a Tag without a prefix displays as exactly the suffix; the icon is not
\* part of the text (prefix "admin", suffix "info": "admin.info"; no prefix,
\* suffix "info": "info").
C6_DisplayIsPrefixDotSuffix ==
    \A k \in Entries :
        log[k].tag # None =>
            LET t == log[k].tag[1]
                r == log[k].text[1]
            IN  /\ t.prefix # None =>
                      LET n == Len(t.prefix[1])
                      IN  /\ Len(r) = n + 1 + Len(t.suffix)
                          /\ SubSeq(r, 1, n) = t.prefix[1]
                          /\ r[n + 1] = Dot
                          /\ SubSeq(r, n + 2, Len(r)) = t.suffix
                /\ t.prefix = None => r = t.suffix
                /\ t.icon \notin Range(r)
                /\ t.prefix = Some(admin) /\ t.suffix = info =>
                      r = <<"a", "d", "m", "i", "n", ".", "i", "n", "f", "o">>
                /\ t.prefix = None /\ t.suffix = info => r = <<"i", "n", "f", "o">>

\* The layer displayed a Tag with prefix "admin" and suffix "info" and a
\* Tag without prefix and with suffix "info".
C6_Witness ==
    \E j, k \in Entries :
        /\ log[j].tag # None /\ log[k].tag # None
        /\ log[j].tag[1].prefix = Some(admin) /\ log[j].tag[1].suffix = info
        /\ log[k].tag[1].prefix = None /\ log[k].tag[1].suffix = info

Ev(target, level) == [target |-> target, level |-> level]

\* C7: the example parser gives, for (admin, INFO), a Tag displaying
\* "admin.info"; for (request, ERROR), "request.error"; for (security,
\* ERROR), "security.critical" with the custom icon; for an event of the
\* default target, and for a "security" event below ERROR, no Tag; and for
\* "admin" or "request" at any level, the target as prefix with the level's
\* label and glyph.
C7_ExampleParser ==
    \A k \in Entries :
        log[k].parser = "simple_tag" =>
            LET ev == log[k].event
                tag == log[k].tag
                text == log[k].text
            IN  /\ ev = Ev(admin, "INFO") =>
                      text = Some(<<"a", "d", "m", "i", "n", ".", "i", "n", "f", "o">>)
                /\ ev = Ev(request, "ERROR") =>
                      text = Some(<<"r", "e", "q", "u", "e", "s", "t", ".",
                                    "e", "r", "r", "o", "r">>)
                /\ ev = Ev(security, "ERROR") =>
                      /\ text = Some(<<"s", "e", "c", "u", "r", "i", "t", "y", ".",
                                       "c", "r", "i", "t", "i", "c", "a", "l">>)
                      /\ tag = Some([prefix |-> Some(security), suffix |-> critical,
                                     icon |-> "U+1F510"])
                /\ ev.target = app => tag = None /\ text = None
                /\ ev.target = security /\ ev.level # "ERROR" => tag = None /\ text = None
                /\ ev.target \in {admin, request} =>
                      tag = Some([prefix |-> Some(ev.target),
                                  suffix |-> TableEntry(ev.level).label,
                                  icon |-> TableEntry(ev.level).glyph])

\* The example parser has classified (security, ERROR) and then an event
\* it gives no Tag.
C7_Witness ==
    /\ Len(log) = 2
    /\ log[1].parser = "simple_tag"
    /\ log[1].event = Ev(security, "ERROR") /\ log[1].tag # None
    /\ log[2].event \in {Ev(app, "INFO"), Ev(security, "INFO")} /\ log[2].tag = None

\* C8: NoTag returns None for every event, whatever its target and level
\* and whatever it parsed before.
C8_NoTagReturnsNone ==
    \A k \in Entries :
        log[k].parser = "NoTag" => log[k].tag = None /\ log[k].text = None

\* NoTag has parsed two events that differ in target and in level.
C8_Witness ==
    /\ Len(log) = 2
    /\ log[1].parser = "NoTag" /\ log[2].parser = "NoTag"
    /\ log[1].event.target # log[2].event.target
    /\ log[1].event.level # log[2].event.level

\* C9: parse on a callable f returns what f returns for the event (the same
\* Tag or None), invokes f once, with that event, and leaves the event as it
\* was dispatched.
C9_AdapterTransparent ==
    /\ \A k \in Entries :
          log[k].parser \in Callables =>
              /\ log[k].tag = Call(log[k].parser, log[k].event)
              /\ log[k].calls = <<log[k].event>>
    /\ Len(log) > 0 /\ ~pending => event = Some(log[Len(log)].event)

\* An adapted callable has returned a Tag for one event and None for another.
C9_Witness ==
    /\ Len(log) = 2 /\ ~pending
    /\ log[1].parser \in Callables
    /\ log[1].tag # None /\ log[2].tag = None

\* Some step of the chain is a set_prefix.
HasPrefixStep(c) == \E k \in 1..Len(c) : c[k][1] = "set_prefix"

\* C10: builder() has no prefix, no suffix and no icon; a builder or Tag at
\* the end of a chain without set_prefix has no prefix, and one at the end
\* of a chain with a set_prefix has one (no step clears the prefix).
C10_BuilderStartsUnset ==
    /\ slots[1].op = <<"builder">>
    /\ slots[1].val = [prefix |-> << >>, suffix |-> <<"Empty">>, icon |-> <<"Empty">>]
    /\ \A i \in Slots :
          slots[i].op[1] \notin {"builder", "from"} =>
              LET c == IF IsTag(i) THEN Chain(slots[i].parent) ELSE Chain(i)
              IN  /\ ~HasPrefixStep(c) => slots[i].val.prefix = << >>
                  /\ HasPrefixStep(c) => Len(slots[i].val.prefix) = 1

\* A Tag finished from a chain without set_prefix, and a builder with
\* suffix and icon set after a set_prefix.
C10_Witness ==
    /\ \E i \in Slots :
          IsTag(i) /\ slots[i].op = <<"finish">> /\ ~HasPrefixStep(Chain(slots[i].parent))
    /\ \E i \in Slots :
          IsBuilder(i) /\ HasPrefixStep(Chain(i)) /\ FinishCallable(slots[i].val)

-----------------------------------------------------------------------------
(* Properties of the single steps *)

\* The shape of a builder: which of suffix and icon are set.
Shape(b) == <<b.suffix # Empty, b.icon # Empty>>

\* Binding j is the result of the step named step.
IsStep(j, step) == IsBuilder(j) /\ slots[j].op[1] = step

Parent(j) == slots[slots[j].parent].val

\* C11: set_prefix can be invoked on a builder of any of the four shapes;
\* the result has the given text as its prefix, whatever prefix was there,
\* and the suffix and icon fields (set or not, and their values) of the
\* builder it was invoked on; invoking it again with the same text gives a
\* builder equal to the first result.
C11_SetPrefixFrame ==
    /\ \A j \in Slots :
          IsStep(j, "set_prefix") =>
              /\ slots[j].val.prefix = <<slots[j].op[2]>>
              /\ slots[j].val.suffix = Parent(j).suffix
              /\ slots[j].val.icon = Parent(j).icon
              /\ IsStep(slots[j].parent, "set_prefix")
                     /\ slots[slots[j].parent].op[2] = slots[j].op[2]
                 => slots[j].val = Parent(j)
    /\ Len(slots) < MaxSlots =>
          \A i \in Slots : IsBuilder(i) =>
              \A p \in PrefixArgs : ENABLED SetPrefix(i, p)

\* set_prefix was invoked twice in a row with the same text on a builder
\* with suffix and icon set, and once on a builder with neither set.
C11_Witness ==
    /\ \E j \in Slots :
          /\ IsStep(j, "set_prefix") /\ IsStep(slots[j].parent, "set_prefix")
          /\ slots[slots[j].parent].op[2] = slots[j].op[2]
          /\ Shape(slots[j].val) = <<TRUE, TRUE>>
    /\ \E i \in Slots : IsBuilder(i) /\ Shape(slots[i].val) = <<FALSE, FALSE>>

\* C12: set_suffix can be invoked on a builder of any of the four shapes;
\* the result has the suffix set to the given text, whatever suffix was
\* there, and the icon field and the prefix of the builder it was invoked
\* on; builder().set_suffix("a").set_suffix("b").set_icon('x') finishes to
\* a Tag with suffix "b".
C12_SetSuffixFrame ==
    /\ \A j \in Slots :
          IsStep(j, "set_suffix") =>
              /\ slots[j].val.suffix = <<"Suffix", slots[j].op[2]>>
              /\ slots[j].val.icon = Parent(j).icon
              /\ slots[j].val.prefix = Parent(j).prefix
    /\ \A j \in Slots :
          IsBuilder(j)
              /\ Chain(j) = <<<<"set_suffix", <<"a">>>>, <<"set_suffix", <<"b">>>>,
                              <<"set_icon", "x">>>>
          => FinishCallable(slots[j].val) /\ finish(slots[j].val).suffix = <<"b">>
    /\ Len(slots) < MaxSlots =>
          \A i \in Slots : IsBuilder(i) =>
              \A x \in SuffixArgs : ENABLED SetSuffix(i, x)

\* set_suffix has overwritten a suffix that was set to another text, on a
\* builder with prefix and icon set.
C12_Witness ==
    \E j \in Slots :
        /\ IsStep(j, "set_suffix")
        /\ Shape(Parent(j)) = <<TRUE, TRUE>>
        /\ Parent(j).suffix # slots[j].val.suffix
        /\ Parent(j).prefix # None

\* C13: set_icon can be invoked on a builder of any of the four shapes; the
\* result has the icon set to the given char, whatever icon was there, and
\* the suffix field and the prefix of the builder it was invoked on.
C13_SetIconFrame ==
    /\ \A j \in Slots :
          IsStep(j, "set_icon") =>
              /\ slots[j].val.icon = <<"Icon", slots[j].op[2]>>
              /\ slots[j].val.suffix = Parent(j).suffix
              /\ slots[j].val.prefix = Parent(j).prefix
    /\ Len(slots) < MaxSlots =>
          \A i \in Slots : IsBuilder(i) =>
              \A c \in IconArgs : ENABLED SetIcon(i, c)

\* set_icon has overwritten an icon that was set to another char, on a
\* builder with prefix and suffix set.
C13_Witness ==
    \E j \in Slots :
        /\ IsStep(j, "set_icon")
        /\ Shape(Parent(j)) = <<TRUE, TRUE>>
        /\ Parent(j).icon # slots[j].val.icon
        /\ Parent(j).prefix # None

\* C14: set_level can be invoked on a builder of any of the four shapes;
\* the result has suffix and icon both set, to the label and glyph the table
\* lists for the level, whatever suffix and icon were set before, and the
\* prefix of the builder it was invoked on; finish can be invoked on it.
C14_SetLevelToFinishable ==
    /\ \A j \in Slots :
          IsStep(j, "set_level") =>
              /\ Shape(slots[j].val) = <<TRUE, TRUE>>
              /\ slots[j].val.suffix = <<"Suffix", TableEntry(slots[j].op[2]).label>>
              /\ slots[j].val.icon = <<"Icon", TableEntry(slots[j].op[2]).glyph>>
              /\ slots[j].val.prefix = Parent(j).prefix
              /\ FinishCallable(slots[j].val)
              /\ Len(slots) < MaxSlots => ENABLED Finish(j)
    /\ Len(slots) < MaxSlots =>
          \A i \in Slots : IsBuilder(i) =>
              \A l \in Level : ENABLED SetLevel(i, l)

\* set_level was invoked on a builder whose suffix and icon had been set by
\* set_suffix and set_icon.
C14_Witness ==
    \E j \in Slots :
        /\ IsStep(j, "set_level")
        /\ IsStep(slots[j].parent, "set_icon")
        /\ IsStep(slots[slots[j].parent].parent, "set_suffix")

\* Binding j is the result of step second invoked on the result of step first.
IsStepAfter(j, first, second) ==
    IsStep(j, second) /\ IsStep(slots[j].parent, first)

\* C15: set_level(L) followed by set_suffix(t) gives a finishable builder
\* whose Tag has suffix t and the glyph of L; set_suffix(t) followed by
\* set_level(L) gives a finishable builder whose Tag has the label and the
\* glyph of L; likewise for set_icon in place of set_suffix.
C15_MixingOverwrites ==
    /\ \A j \in Slots :
          /\ IsStepAfter(j, "set_level", "set_suffix") =>
                /\ FinishCallable(slots[j].val)
                /\ finish(slots[j].val).suffix = slots[j].op[2]
                /\ finish(slots[j].val).icon =
                       TableEntry(slots[slots[j].parent].op[2]).glyph
          /\ IsStepAfter(j, "set_level", "set_icon") =>
                /\ FinishCallable(slots[j].val)
                /\ finish(slots[j].val).suffix =
                       TableEntry(slots[slots[j].parent].op[2]).label
                /\ finish(slots[j].val).icon = slots[j].op[2]
          /\ IsStepAfter(j, "set_suffix", "set_level")
                \/ IsStepAfter(j, "set_icon", "set_level") =>
                /\ FinishCallable(slots[j].val)
                /\ finish(slots[j].val).suffix = TableEntry(slots[j].op[2]).label
                /\ finish(slots[j].val).icon = TableEntry(slots[j].op[2]).glyph
    /\ \A k \in Slots :
          IsTag(k) /\ slots[k].op = <<"finish">> =>
              LET j == slots[k].parent
              IN  /\ IsStepAfter(j, "set_level", "set_suffix") =>
                        /\ slots[k].val.suffix = slots[j].op[2]
                        /\ slots[k].val.icon =
                               TableEntry(slots[slots[j].parent].op[2]).glyph
                  /\ IsStepAfter(j, "set_suffix", "set_level") =>
                        /\ slots[k].val.suffix = TableEntry(slots[j].op[2]).label
                        /\ slots[k].val.icon = TableEntry(slots[j].op[2]).glyph

\* A Tag was finished after set_level then set_suffix.
C15_Witness ==
    \E k \in Slots :
        /\ IsTag(k) /\ slots[k].op = <<"finish">>
        /\ IsStepAfter(slots[k].parent, "set_level", "set_suffix")

\* The builders binding j was reached through, binding 1 included.
RECURSIVE Ancestors(_)
Ancestors(j) ==
    IF slots[j].parent = 0 THEN {}
    ELSE {slots[j].parent} \cup Ancestors(slots[j].parent)

\* C18: along a chain of steps, a suffix that is set stays set and an icon
\* that is set stays set, so every builder reached from a finishable builder
\* is finishable.
C18_FlagsMonotone ==
    \A j \in Slots :
        IsBuilder(j) =>
            \A i \in Ancestors(j) :
                /\ Shape(slots[i].val)[1] => Shape(slots[j].val)[1]
                /\ Shape(slots[i].val)[2] => Shape(slots[j].val)[2]
                /\ FinishCallable(slots[i].val) => FinishCallable(slots[j].val)

\* A finishable builder was followed by a set_prefix and a set_icon.
C18_Witness ==
    \E j \in Slots :
        /\ IsStepAfter(j, "set_prefix", "set_icon")
        /\ FinishCallable(slots[slots[slots[j].parent].parent].val)

\* The fields a step writes.
Writes(op) ==
    CASE op[1] = "set_prefix" -> {"prefix"}
      [] op[1] = "set_suffix" -> {"suffix"}
      [] op[1] = "set_icon"   -> {"icon"}
      [] op[1] = "set_level"  -> {"suffix", "icon"}
      [] OTHER                -> {"prefix", "suffix", "icon"}

Independent(a, b) == Writes(a) \cap Writes(b) = {}

\* Binding j is the result of two steps, the first one invoked on binding g.
TwoStepsFrom(j, g) ==
    /\ IsBuilder(j) /\ IsBuilder(slots[j].parent)
    /\ slots[slots[j].parent].parent = g

First(j) == slots[slots[j].parent].op

\* Binding j is the result of two steps; Origin(j) is the binding the first
\* of them was invoked on.
IsTwoSteps(j) ==
    /\ IsBuilder(j) /\ IsBuilder(slots[j].parent)
    /\ slots[slots[j].parent].parent # 0

Origin(j) == slots[slots[j].parent].parent

\* C19: two steps that write different fields give the same builder in
\* either order: set_suffix and set_icon commute, and set_prefix commutes
\* with set_suffix, set_icon and set_level.
C19_IndependentStepsCommute ==
    /\ LET n == Len(slots)
           v == slots[n].val
       IN  IsBuilder(n) =>
               /\ \A x \in SuffixArgs, c \in IconArgs :
                     set_icon(set_suffix(v, x), c) = set_suffix(set_icon(v, c), x)
               /\ \A p \in PrefixArgs, x \in SuffixArgs :
                     set_suffix(set_prefix(v, p), x) = set_prefix(set_suffix(v, x), p)
               /\ \A p \in PrefixArgs, c \in IconArgs :
                     set_icon(set_prefix(v, p), c) = set_prefix(set_icon(v, c), p)
               /\ \A p \in PrefixArgs, l \in Level :
                     set_level(set_prefix(v, p), l) = set_prefix(set_level(v, l), p)
    /\ \A j \in Slots :
          IsTwoSteps(j) =>
              \A k \in Slots :
                  /\ IsBuilder(k) /\ slots[k].parent = Origin(j)
                  /\ slots[k].op = slots[j].op
                  /\ Independent(First(j), slots[j].op)
                  => Applied(First(j), slots[k].val) = slots[j].val
    /\ \A j \in Slots :
          IsTwoSteps(j) =>
              \A m \in Slots :
                  /\ m > j /\ TwoStepsFrom(m, Origin(j))
                  /\ First(m) = slots[j].op
                  /\ First(j) = slots[m].op
                  /\ Independent(slots[j].op, slots[m].op)
                  => slots[j].val = slots[m].val

\* From one builder, set_prefix then set_level was invoked, and set_level
\* alone with the same level.
C19_Witness ==
    \E g, j, k \in Slots :
        /\ IsBuilder(g) /\ TwoStepsFrom(j, g)
        /\ IsBuilder(k) /\ slots[k].parent = g
        /\ slots[k].op = slots[j].op
        /\ IsStepAfter(j, "set_prefix", "set_level")

-----------------------------------------------------------------------------
(* Properties of serialization and of concurrent parsing *)

\* C16: a Tag serializes as the string it displays as, "prefix.suffix" with
\* a prefix and "suffix" without; the icon is not part of it, so two Tags
\* that differ only in the icon serialize to the same string.
C16_SerializeIsDisplayString ==
    /\ \A k \in Entries :
          log[k].tag # None =>
              LET t == log[k].tag[1]
                  out == log[k].ser[1]
              IN  /\ Len(out) = 2
                  /\ out[1] = "serialize_str"
                  /\ out[2] = log[k].text[1]
                  /\ t.prefix = None => out[2] = t.suffix
                  /\ t.prefix # None =>
                        /\ Len(out[2]) = Len(t.prefix[1]) + 1 + Len(t.suffix)
                        /\ \A n \in 1..Len(t.prefix[1]) : out[2][n] = t.prefix[1][n]
                        /\ out[2][Len(t.prefix[1]) + 1] = Dot
                        /\ \A n \in 1..Len(t.suffix) :
                              out[2][Len(t.prefix[1]) + 1 + n] = t.suffix[n]
                  /\ t.icon \notin Range(out[2])
    /\ \A j, k \in Entries :
          /\ log[j].tag # None /\ log[k].tag # None
          /\ log[j].tag[1].prefix = log[k].tag[1].prefix
          /\ log[j].tag[1].suffix = log[k].tag[1].suffix
          => log[j].ser = log[k].ser

\* Two Tags that differ only in the icon were serialized, and so was a Tag
\* with a prefix.
C16_Witness ==
    \E j, k \in Entries :
          /\ log[j].tag # None /\ log[k].tag # None
          /\ log[j].tag[1].prefix = log[k].tag[1].prefix
          /\ log[j].tag[1].suffix = log[k].tag[1].suffix
          /\ log[j].tag[1].icon # log[k].tag[1].icon
          /\ log[j].tag[1].prefix # None

\* What parse returns for the event when it is the only invocation.
Alone(self, ev) ==
    IF self = "NoTag" THEN None
    ELSE IF self = "none_fn" THEN None
    ELSE IF self = "simple_tag" THEN
        IF ev.target = security /\ ev.level = "ERROR"
        THEN Some([prefix |-> Some(security), suffix |-> critical, icon |-> lockIcon])
        ELSE IF ev.target \in {admin, request}
        THEN Some([prefix |-> Some(ev.target), suffix |-> TableEntry(ev.level).label,
                   icon |-> TableEntry(ev.level).glyph])
        ELSE None
    ELSE Call(self, ev)

\* C17: under every interleaving of the threads' invocations, each
\* invocation of NoTag or of a callable that reads only the event's target
\* and level returns what it returns for its event when run alone, and what
\* an invocation has returned is not changed by any later step.
C17_ParsesDoNotInterfere ==
    [][/\ \A t \in Threads : \A k \in 1..Len(done[t]) :
              Len(done'[t]) >= k /\ done'[t][k] = done[t][k]
       /\ \A t \in Threads : \A k \in 1..Len(done'[t]) :
              done'[t][k].tag = Alone(parser', done'[t][k].event)]_vars

\* Two invocations of the example parser, on different events, have both
\* read their event and not yet returned.
C17_Witness ==
    /\ parser = "simple_tag"
    /\ \A t \in Threads : pc[t] = "return"
    /\ arg["t1"] # arg["t2"]

-----------------------------------------------------------------------------
(* Properties of finished Tags *)

\* What the accessors return on the Tag bound as i.
Accessed(i) ==
    [prefix |-> Tag_prefix(slots[i].val),
     suffix |-> Tag_suffix(slots[i].val),
     icon |-> Tag_icon(slots[i].val)]

\* C20: no step and no finish made after a Tag was produced, on the builder
\* it came from or on any other, changes the Tag; prefix(), suffix() and
\* icon() return after the step what they returned before it, the fields
\* the Tag was produced with.
C20_TagsImmutable ==
    [][\A i \in Slots :
          IsTag(i) =>
              /\ Len(slots') >= i
              /\ slots'[i] = slots[i]
              /\ Accessed(i)' = Accessed(i)
              /\ Accessed(i)' = slots[i].val
              /\ slots[i].op = <<"finish">> =>
                    /\ Accessed(i)'.prefix = Parent(i).prefix
                    /\ Accessed(i)'.suffix = Parent(i).suffix[2]
                    /\ Accessed(i)'.icon = Parent(i).icon[2]]_vars

\* After a Tag was finished, a step was invoked on the builder it came from.
C20_Witness ==
    \E k, m \in Slots :
        /\ IsTag(k) /\ slots[k].op = <<"finish">>
        /\ m > k /\ IsBuilder(m) /\ slots[m].parent = slots[k].parent
        /\ slots[m].val.prefix # slots[k].val.prefix

====
